---- MODULE Spec2Model ----
(***************************************************************************)
(* Huffman-Encoding-Visualizer: HuffmanTree (src/huffman.py) and the       *)
(* layout / animation part of HuffmanTreeVisualizer (src/visualizer.py),   *)
(* driven as HuffmanApp.visualize_animated and export_animation drive them *)
(* (src/main.py).                                                          *)
(*                                                                         *)
(* A text is a sequence of symbols; symbols are numbers, 0 stands for      *)
(* Python's None.  A HuffmanNode object is an index into the arena `nodes` *)
(* (object identity = index), 0 stands for None.  Python lists are         *)
(* 0-based: list position p is sequence index p + 1.                       *)
(*                                                                         *)
(* Numbers.  Pixel coordinates are fixed-point (Scale units per pixel), so *)
(* the midpoints and floor divisions of the layout are exact.  zoom_level  *)
(* is the power n of 1.2 (zoom_in multiplies by 1.2, zoom_out divides) and *)
(* zoomed values are exact fractions over ZoomDen(n): the rounding of the  *)
(* float products is not modelled.  Delays are hundredths of a second.     *)
(*                                                                         *)
(* Spec: a behaviour is one visualize_animated on the text entered, step   *)
(* by step, then slider moves and at most one export_animation; or one     *)
(* render_to_image of the tree built.                                      *)
(* AppSpec: a behaviour is the running HuffmanApp: its handlers run one at *)
(* a time on the main thread, each as one step, while the export_mp4       *)
(* thread of export_animation takes its steps between them.                *)
(***************************************************************************)
EXTENDS Integers, Sequences, FiniteSets, TLC

(* ------------------------------ bounds -------------------------------- *)
\* free texts: every sequence over 1..AlphabetSize of length 0..MaxLen
AlphabetSize == 2
MaxLen == 4
\* block texts ("aaabbc"): 1..MaxSyms distinct symbols, length <= MaxBlockLen
MaxSyms == 7
MaxBlockLen == 8
\* handler calls made on the running application
MaxOps == 3

VARIABLES
    text,        \* HuffmanTree.text
    frequency,   \* HuffmanTree.frequency: Counter, as <<char, count>> pairs in insertion order
    nodes,       \* every HuffmanNode created so far: [char, freq, left, right]
    heap,        \* the local list `heap` of _build_tree
    steps,       \* HuffmanTree.steps: <<left, right, merged>> triples
    root,        \* HuffmanTree.root (0 = None)
    codes,       \* HuffmanTree.codes: <<char, code>> pairs in insertion order
    encoded,     \* HuffmanTree.encoded: sequence of 0/1
    zoom_level,       \* HuffmanApp.zoom_level, as n: 1.2^n
    animation_speed,  \* HuffmanApp.animation_speed, in hundredths of a second
    frames,      \* what animate_construction / draw_static drew on the canvas, one record per draw
    callbacks,   \* number of times the running animate_construction called back
    info_text,   \* HuffmanApp.info_text as update_output fills it (<<>> = empty)
    anim_i,      \* loop index of animate_construction
    exporting,   \* TRUE while export_animation.do_export is the running handler
    stream,      \* export_mp4's frame generator and writer: [znum, zden, delay, fps, ...]
    streamed,    \* the frames export_mp4 has appended to the writer
    visualizer,  \* HuffmanApp.visualizer: the attributes of the object (<<>> = None)
    image,       \* what the last render_to_image returned (<<>> = none yet)
    textbox,     \* the contents of the text box
    thread,      \* the export_mp4 thread: [pc, scale, fps]
    raised,      \* the exception the last handler ended with ("" = none)
    ops,         \* number of handler calls made on the running application
    requests,    \* the layouts the running application has asked for, in order:
                 \* [N, root, znum, zden, positions]
    pc           \* position of the running handler

treeVars == <<text, frequency, nodes, heap, steps, root, codes, encoded>>
appVars == <<zoom_level, animation_speed, info_text>>
animVars == <<frames, callbacks, anim_i, exporting>>
streamVars == <<stream, streamed>>
visVars == <<visualizer, image>>
uiVars == <<textbox, thread, raised, ops, requests>>

(* ------------------------------ helpers ------------------------------- *)
Range(s) == {s[i] : i \in 1..Len(s)}

Max(a, b) == IF a >= b THEN a ELSE b

RECURSIVE SumSeq(_)
SumSeq(s) == IF s = <<>> THEN 0 ELSE Head(s) + SumSeq(Tail(s))

RECURSIVE Repeat(_, _)
Repeat(c, n) == IF n = 0 THEN <<>> ELSE <<c>> \o Repeat(c, n - 1)

RECURSIVE Blocks(_, _)
\* the text made of f[1] copies of symbol from, then f[2] copies of from+1, ...
Blocks(f, from) ==
    IF f = <<>> THEN <<>> ELSE Repeat(from, Head(f)) \o Blocks(Tail(f), from + 1)

FreeTexts == UNION {[1..n -> 1..AlphabetSize] : n \in 0..MaxLen}

BlockTables ==
    UNION {{f \in [1..k -> 1..(MaxBlockLen - k + 1)] : SumSeq(f) <= MaxBlockLen}
           : k \in 1..MaxSyms}

BlockTexts == {Blocks(f, 1) : f \in BlockTables}

\* the three-symbol text "aaaabbbcc"
ExampleTexts == {<<1, 1, 1, 1, 2, 2, 2, 3, 3>>}

Texts == FreeTexts \cup BlockTexts \cup ExampleTexts

(* -------------------- collections.Counter(text) ----------------------- *)
\* position of key c in the pair list d, 0 when absent
KeyIndex(d, c) ==
    IF \E i \in 1..Len(d) : d[i][1] = c
    THEN CHOOSE i \in 1..Len(d) : d[i][1] = c
    ELSE 0

\* d[c] = v on a dict kept as a pair list: update in place, or insert at the end
DictSet(d, c, v) ==
    IF KeyIndex(d, c) = 0 THEN Append(d, <<c, v>>)
    ELSE [d EXCEPT ![KeyIndex(d, c)] = <<c, v>>]

DictGet(d, c) == d[KeyIndex(d, c)][2]

RECURSIVE CounterUpdate(_, _)
CounterUpdate(d, t) ==
    IF t = <<>> THEN d
    ELSE LET c == Head(t)
             n == IF KeyIndex(d, c) = 0 THEN 0 ELSE DictGet(d, c)
         IN CounterUpdate(DictSet(d, c, n + 1), Tail(t))

\* a counting that files each symbol at its last occurrence
RECURSIVE CounterLastSeen(_)
CounterLastSeen(t) ==
    IF t = <<>> THEN <<>>
    ELSE LET c == t[Len(t)]
             rest == SelectSeq(t, LAMBDA x : x # c)
         IN Append(CounterLastSeen(rest), <<c, Len(t) - Len(rest)>>)

Counter(t) == CounterUpdate(<<>>, t)

(* ------------------------- HuffmanNode, heapq ------------------------- *)
HuffmanNode(char, freq, left, right) ==
    [char |-> char, freq |-> freq, left |-> left, right |-> right]

\* a comparison the wrong way round
LtGreater(N, a, b) == N[a].freq > N[b].freq

\* HuffmanNode.__lt__ of nodes a and b of arena N
Lt(N, a, b) == N[a].freq < N[b].freq

RECURSIVE SiftDownLoop(_, _, _, _, _)
SiftDownLoop(N, h, startpos, pos, newitem) ==
    IF pos > startpos
    THEN LET parentpos == (pos - 1) \div 2
             parent == h[parentpos + 1]
         IN IF Lt(N, newitem, parent)
            THEN SiftDownLoop(N, [h EXCEPT ![pos + 1] = parent], startpos, parentpos, newitem)
            ELSE [h EXCEPT ![pos + 1] = newitem]
    ELSE [h EXCEPT ![pos + 1] = newitem]

siftdown(N, h, startpos, pos) == SiftDownLoop(N, h, startpos, pos, h[pos + 1])

RECURSIVE SiftUpLoop(_, _, _, _, _)
SiftUpLoop(N, h, startpos, pos, newitem) ==
    LET endpos == Len(h)
        leftpos == 2 * pos + 1
        rightpos == leftpos + 1
        childpos == IF rightpos < endpos /\ ~Lt(N, h[leftpos + 1], h[rightpos + 1])
                    THEN rightpos ELSE leftpos
    IN IF leftpos < endpos
       THEN SiftUpLoop(N, [h EXCEPT ![pos + 1] = h[childpos + 1]], startpos, childpos, newitem)
       ELSE siftdown(N, [h EXCEPT ![pos + 1] = newitem], startpos, pos)

siftup(N, h, pos) == SiftUpLoop(N, h, pos, pos, h[pos + 1])

RECURSIVE HeapifyLoop(_, _, _)
HeapifyLoop(N, h, i) ==
    IF i < 0 THEN h ELSE HeapifyLoop(N, siftup(N, h, i), i - 1)

\* a heapify that leaves the list as it is
heapifySkip(N, h) == h

heapify(N, h) == HeapifyLoop(N, h, (Len(h) \div 2) - 1)

\* a pop that hands out the last list element
heappopLast(N, h) ==
    [item |-> h[Len(h)], heap |-> SubSeq(h, 1, Len(h) - 1)]

\* heappop: <<returned item, heap afterwards>>
heappop(N, h) ==
    LET lastelt == h[Len(h)]
        rest == SubSeq(h, 1, Len(h) - 1)
    IN IF rest # <<>>
       THEN [item |-> rest[1], heap |-> siftup(N, [rest EXCEPT ![1] = lastelt], 0)]
       ELSE [item |-> lastelt, heap |-> rest]

\* a push that forgets the item
heappushDrop(N, h, item) == h

heappush(N, h, item) == siftdown(N, Append(h, item), 0, Len(h))

(* ------------------------------ HuffmanTree --------------------------- *)
\* the leaves created from frequency.items(), in order
Leaves(freq) == [i \in 1..Len(freq) |-> HuffmanNode(freq[i][1], freq[i][2], 0, 0)]

\* an iteration that puts the left node, not the merged one, back on the heap
MergeOnceRepush(b) ==
    LET p1 == heappop(b.nodes, b.heap)
        p2 == heappop(b.nodes, p1.heap)
        merged == Len(b.nodes) + 1
        N2 == Append(b.nodes,
                     HuffmanNode(0, b.nodes[p1.item].freq + b.nodes[p2.item].freq,
                                 p1.item, p2.item))
    IN [nodes |-> N2,
        heap |-> heappush(N2, p2.heap, p1.item),
        steps |-> Append(b.steps, <<p1.item, p2.item, merged>>)]

\* one iteration of the while loop of _build_tree on (arena, heap, steps)
MergeOnce(b) ==
    LET p1 == heappop(b.nodes, b.heap)
        left == p1.item
        p2 == heappop(b.nodes, p1.heap)
        right == p2.item
        merged == Len(b.nodes) + 1
        N2 == Append(b.nodes,
                     HuffmanNode(0, b.nodes[left].freq + b.nodes[right].freq, left, right))
    IN [nodes |-> N2,
        heap |-> heappush(N2, p2.heap, merged),
        steps |-> Append(b.steps, <<left, right, merged>>)]

RECURSIVE BuildLoop(_)
BuildLoop(b) == IF Len(b.heap) > 1 THEN BuildLoop(MergeOnce(b)) ELSE b

\* _build_tree as a whole: arena, merge log and root for a frequency table
build_tree(freq) ==
    LET b == BuildLoop([nodes |-> Leaves(freq),
                        heap |-> heapify(Leaves(freq), [i \in 1..Len(freq) |-> i]),
                        steps |-> <<>>])
    IN [nodes |-> b.nodes, steps |-> b.steps,
        root |-> IF b.heap # <<>> THEN b.heap[1] ELSE 0]

\* HuffmanTree.__init__, first half
Construct ==
    /\ pc = "new"
    /\ frequency' = Counter(text)
    /\ root' = 0
    /\ codes' = <<>>
    /\ encoded' = <<>>
    /\ pc' = "build"
    /\ UNCHANGED <<text, nodes, heap, steps>>
    /\ UNCHANGED <<appVars, animVars, streamVars, visVars, uiVars>>

\* _build_tree up to the loop
BuildStart ==
    /\ pc = "build"
    /\ nodes' = Leaves(frequency)
    /\ heap' = heapify(Leaves(frequency), [i \in 1..Len(frequency) |-> i])
    /\ steps' = <<>>
    /\ pc' = "merge"
    /\ UNCHANGED <<text, frequency, root, codes, encoded>>
    /\ UNCHANGED <<appVars, animVars, streamVars, visVars, uiVars>>

\* one iteration of `while len(heap) > 1`
MergeStep ==
    /\ pc = "merge"
    /\ Len(heap) > 1
    /\ LET b == MergeOnce([nodes |-> nodes, heap |-> heap, steps |-> steps])
       IN /\ nodes' = b.nodes
          /\ heap' = b.heap
          /\ steps' = b.steps
    /\ UNCHANGED <<text, frequency, root, codes, encoded, pc>>
    /\ UNCHANGED <<appVars, animVars, streamVars, visVars, uiVars>>

\* loop exit and `self.root = heap[0] if heap else None`
BuildEnd ==
    /\ pc = "merge"
    /\ Len(heap) <= 1
    /\ root' = IF heap # <<>> THEN heap[1] ELSE 0
    /\ pc' = "codes"
    /\ UNCHANGED <<text, frequency, nodes, heap, steps, codes, encoded>>
    /\ UNCHANGED <<appVars, animVars, streamVars, visVars, uiVars>>

\* a traversal that labels both branches '0'
RECURSIVE dfsSameBit(_, _, _, _)
dfsSameBit(N, node, code, d) ==
    IF node = 0 THEN d
    ELSE LET d1 == IF N[node].char # 0 THEN DictSet(d, N[node].char, code) ELSE d
             d2 == dfsSameBit(N, N[node].left, Append(code, 0), d1)
         IN dfsSameBit(N, N[node].right, Append(code, 0), d2)

\* a traversal that labels the left branch '1' and the right branch '0'
RECURSIVE dfsSwapped(_, _, _, _)
dfsSwapped(N, node, code, d) ==
    IF node = 0 THEN d
    ELSE LET d1 == IF N[node].char # 0 THEN DictSet(d, N[node].char, code) ELSE d
             d2 == dfsSwapped(N, N[node].left, Append(code, 1), d1)
         IN dfsSwapped(N, N[node].right, Append(code, 0), d2)

\* _generate_codes.dfs: the dict after visiting the subtree of node
RECURSIVE dfs(_, _, _, _)
dfs(N, node, code, d) ==
    IF node = 0 THEN d
    ELSE LET d1 == IF N[node].char # 0 THEN DictSet(d, N[node].char, code) ELSE d
             d2 == dfs(N, N[node].left, Append(code, 0), d1)
         IN dfs(N, N[node].right, Append(code, 1), d2)

\* a code generator that gives the lone symbol of a single-leaf tree the code '0'
generate_codes_sentinel(N, r) ==
    IF r = 0 THEN <<>>
    ELSE IF N[r].left = 0 /\ N[r].right = 0 THEN <<<<N[r].char, <<0>>>>>>
    ELSE dfs(N, r, <<>>, <<>>)

generate_codes(N, r) == IF r # 0 THEN dfs(N, r, <<>>, <<>>) ELSE <<>>

\* an encoder that writes each distinct symbol once
RECURSIVE encodeDistinct(_, _)
encodeDistinct(cd, t) ==
    IF t = <<>> THEN <<>>
    ELSE DictGet(cd, Head(t)) \o encodeDistinct(cd, SelectSeq(Tail(t), LAMBDA x : x # Head(t)))

\* ''.join(self.codes[c] for c in self.text)
RECURSIVE encode_text(_, _)
encode_text(cd, t) ==
    IF t = <<>> THEN <<>> ELSE DictGet(cd, Head(t)) \o encode_text(cd, Tail(t))

\* statistics that divide by original_bits without looking at it first
get_compression_stats_unguarded(t, enc) ==
    [original_bits |-> Len(t) * 8,
     compressed_bits |-> Len(enc),
     percent |-> [num |-> 100 * (Len(t) * 8 - Len(enc)), den |-> Len(t) * 8]]

\* get_compression_stats; percent is the fraction num/den (0/1 when original_bits = 0)
get_compression_stats(t, enc) ==
    LET original_bits == Len(t) * 8
        compressed_bits == Len(enc)
    IN [original_bits |-> original_bits,
        compressed_bits |-> compressed_bits,
        percent |-> IF original_bits = 0 THEN [num |-> 0, den |-> 1]
                    ELSE [num |-> 100 * (original_bits - compressed_bits),
                          den |-> original_bits]]

\* HuffmanTree(text) as a whole: the fields of the object once __init__ returns
HuffmanTree(t) ==
    LET b == build_tree(Counter(t))
        cd == generate_codes(b.nodes, b.root)
    IN [frequency |-> Counter(t), nodes |-> b.nodes, steps |-> b.steps, root |-> b.root,
        codes |-> cd, encoded |-> encode_text(cd, t)]

\* HuffmanTree.__init__: self._generate_codes()
GenerateCodes ==
    /\ pc = "codes"
    /\ codes' = generate_codes(nodes, root)
    /\ pc' = "encode"
    /\ UNCHANGED <<text, frequency, nodes, heap, steps, root, encoded>>
    /\ UNCHANGED <<appVars, animVars, streamVars, visVars, uiVars>>

\* HuffmanTree.__init__: self._encode_text(); a symbol without a code raises KeyError
EncodeText ==
    /\ pc = "encode"
    /\ IF \A i \in 1..Len(text) : KeyIndex(codes, text[i]) # 0
       THEN encoded' = encode_text(codes, text) /\ pc' = "built"
       ELSE encoded' = encoded /\ pc' = "KeyError"
    /\ UNCHANGED <<text, frequency, nodes, heap, steps, root, codes>>
    /\ UNCHANGED <<appVars, animVars, streamVars, visVars, uiVars>>

(* ------------------------ HuffmanTreeVisualizer ----------------------- *)
node_radius == 25
level_gap == 90
h_gap == 30

\* HuffmanTreeVisualizer.__init__: the attributes of a new visualizer (its tree is
\* kept beside it).  __init__ sets no zoom_level: the draws read it with
\* getattr(self, 'zoom_level', 1.0), which the power 0 stands for.
\* None, for the attributes that hold an object or nothing
None == <<>>
IsNone(x) == DOMAIN x = {}

HuffmanTreeVisualizer ==
    [node_radius |-> node_radius, level_gap |-> level_gap, h_gap |-> h_gap,
     zoom_level |-> 0, animation_delay |-> 70]

\* a zoom that is applied to the visualizer's geometry in place
SetZoomScalingRadius(self, zoom, delay) ==
    [self EXCEPT !.zoom_level = zoom, !.animation_delay = delay,
                 !.node_radius = IF zoom = 0 THEN self.node_radius
                                 ELSE (self.node_radius * 6) \div 5]

\* self.visualizer.zoom_level = self.zoom_level
\* self.visualizer.animation_delay = self.animation_speed
SetZoomAndDelay(self, zoom, delay) ==
    [self EXCEPT !.zoom_level = zoom, !.animation_delay = delay]

\* Coordinates are kept as whole numbers of 1/Scale pixel: a parent sits at the
\* midpoint of its children, so a tree of height h needs halves of halves.
Scale == 2 ^ (Max(MaxSyms, AlphabetSize) + 1)

\* zoom_level n stands for 1.2^n = ZoomNum(n) / ZoomDen(n)
ZoomNum(n) == IF n >= 0 THEN 6 ^ n ELSE 5 ^ (0 - n)
ZoomDen(n) == IF n >= 0 THEN 5 ^ n ELSE 6 ^ (0 - n)

RECURSIVE compute_subtree_width(_, _)
compute_subtree_width(N, node) ==
    IF node = 0 THEN 0
    ELSE IF N[node].left = 0 /\ N[node].right = 0 THEN 1
    ELSE compute_subtree_width(N, N[node].left) + compute_subtree_width(N, N[node].right)

\* a placement that starts the right subtree one slot to the right of x
RECURSIVE assign_positions_one_slot(_, _, _, _, _, _, _)
assign_positions_one_slot(self, N, node, x, y, x_spacing, positions) ==
    IF node = 0 THEN positions
    ELSE LET l == N[node].left
             r == N[node].right
             p1 == IF l # 0
                   THEN assign_positions_one_slot(self, N, l, x, y + self.level_gap * Scale,
                                                  x_spacing, positions)
                   ELSE positions
             p2 == IF r # 0
                   THEN assign_positions_one_slot(self, N, r, x + x_spacing,
                                                  y + self.level_gap * Scale,
                                                  x_spacing, p1)
                   ELSE p1
             my_x == IF l # 0 /\ r # 0 THEN (p2[l][1] + p2[r][1]) \div 2
                     ELSE IF l # 0 THEN p2[l][1] + x_spacing
                     ELSE IF r # 0 THEN p2[r][1] - x_spacing
                     ELSE x
         IN (node :> <<my_x, y>>) @@ p2

\* _assign_positions: the dict `positions` after the call (x, y, x_spacing in 1/Scale px)
RECURSIVE assign_positions(_, _, _, _, _, _, _)
assign_positions(self, N, node, x, y, x_spacing, positions) ==
    IF node = 0 THEN positions
    ELSE LET l == N[node].left
             r == N[node].right
             lw == compute_subtree_width(N, l)
             p1 == IF l # 0
                   THEN assign_positions(self, N, l, x, y + self.level_gap * Scale, x_spacing,
                                         positions)
                   ELSE positions
             p2 == IF r # 0
                   THEN assign_positions(self, N, r, x + lw * x_spacing,
                                         y + self.level_gap * Scale,
                                         x_spacing, p1)
                   ELSE p1
             my_x == IF l # 0 /\ r # 0 THEN (p2[l][1] + p2[r][1]) \div 2
                     ELSE IF l # 0 THEN p2[l][1] + x_spacing
                     ELSE IF r # 0 THEN p2[r][1] - x_spacing
                     ELSE x
         IN (node :> <<my_x, y>>) @@ p2

\* x_spacing of _layout_tree, in px
XSpacing(self) == Max(self.node_radius * 2 + self.h_gap, 60)

\* a layout whose canvas has no least width
layout_tree_no_minimum(self, N, r) ==
    LET total_leaves == compute_subtree_width(N, r)
        canvas_width == total_leaves * XSpacing(self) + 2 * self.node_radius
    IN [positions |-> assign_positions(self, N, r, (canvas_width \div 2) * Scale,
                                       (self.node_radius + 40) * Scale,
                                       XSpacing(self) * Scale, <<>>),
        canvas_width |-> canvas_width]

\* _layout_tree: positions in 1/Scale px, canvas_width in px
layout_tree(self, N, r) ==
    LET total_leaves == compute_subtree_width(N, r)
        canvas_width == Max(600, total_leaves * XSpacing(self) + 2 * self.node_radius)
        start_x == canvas_width \div 2
    IN [positions |-> assign_positions(self, N, r, start_x * Scale,
                                       (self.node_radius + 40) * Scale,
                                       XSpacing(self) * Scale, <<>>),
        canvas_width |-> canvas_width]

MinOf(S) == CHOOSE m \in S : \A n \in S : m <= n
MaxOf(S) == CHOOSE m \in S : \A n \in S : m >= n
Xs(positions) == {positions[n][1] : n \in DOMAIN positions}
Ys(positions) == {positions[n][2] : n \in DOMAIN positions}

\* a centering that puts the left edge, not the middle, at canvas_width // 2
center_positions_left_edge(positions, canvas_width) ==
    IF DOMAIN positions = {} THEN positions
    ELSE LET offset == (canvas_width \div 2) * Scale - MinOf(Xs(positions))
         IN [n \in DOMAIN positions |-> <<positions[n][1] + offset, positions[n][2]>>]

\* _center_positions; `//` floors to a whole pixel
center_positions(positions, canvas_width) ==
    IF DOMAIN positions = {} THEN positions
    ELSE LET min_x == MinOf(Xs(positions))
             max_x == MaxOf(Xs(positions))
             tree_width == max_x - min_x
             offset == ((canvas_width * Scale - tree_width) \div (2 * Scale)) * Scale - min_x
         IN [n \in DOMAIN positions |-> <<positions[n][1] + offset, positions[n][2]>>]

\* {node: (x * zoom, y * zoom)}: numerators over Scale * zden
Zoomed(positions, znum) ==
    [n \in DOMAIN positions |-> <<positions[n][1] * znum, positions[n][2] * znum>>]

\* int(self.node_radius * zoom)
ZoomedRadius(self, znum, zden) == (self.node_radius * znum) \div zden

\* _draw_tree / _draw_tree_on_image: the nodes drawn, in the order they are visited
RECURSIVE draw_tree(_, _, _, _)
draw_tree(N, node, positions, highlight) ==
    IF node = 0 THEN <<>>
    ELSE LET color == IF highlight # <<>> /\ (node = highlight[1] \/ node = highlight[2])
                      THEN "lightgreen"
                      ELSE IF N[node].char # 0 THEN "lightblue" ELSE "lightgray"
             nv == [node |-> node, x |-> positions[node][1], y |-> positions[node][2],
                    color |-> color]
         IN <<nv>> \o draw_tree(N, N[node].left, positions, highlight)
                   \o draw_tree(N, N[node].right, positions, highlight)

\* one draw of animate_construction (keep_centered = False): layout, centre, zoom, draw
CanvasFrame(self, N, r, highlight) ==
    LET z == self.zoom_level
        lay == layout_tree(self, N, r)
        centered == center_positions(lay.positions, lay.canvas_width)
        positions == Zoomed(centered, ZoomNum(z))
    IN [root |-> r,
        highlight |-> highlight,
        canvas_width |-> lay.canvas_width,
        centered |-> centered,
        zoom |-> z,
        node_radius |-> ZoomedRadius(self, ZoomNum(z), ZoomDen(z)),
        node_visuals |-> draw_tree(N, r, positions, highlight)]

\* a loop body that draws the whole tree instead of the merged subtree
AnimateFrameOfRoot(self, N, st, i) == CanvasFrame(self, N, root, <<st[i][1], st[i][2]>>)

\* the body of animate_construction's loop for step i (1-based)
AnimateFrame(self, N, st, i) == CanvasFrame(self, N, st[i][3], <<st[i][1], st[i][2]>>)

\* int(max_x + node_radius + 40), and the same for y (`600` when nothing is positioned)
FrameExtent(coords, radius, zden) ==
    ((IF coords = {} THEN 600 * Scale * zden ELSE MaxOf(coords)) \div (Scale * zden)) + radius + 40

\* the first pass of render_/stream_animation_frames_to_images: frame_data, then the
\* final tree, each as (root, positions, node_radius, highlight) with its width, height
FrameDatum(self, N, r, highlight, znum, zden) ==
    LET lay == layout_tree(self, N, r)
        positions == Zoomed(center_positions(lay.positions, lay.canvas_width), znum)
        radius == ZoomedRadius(self, znum, zden)
    IN [root |-> r, positions |-> positions, node_radius |-> radius, highlight |-> highlight,
        width |-> FrameExtent(Xs(positions), radius, zden),
        height |-> FrameExtent(Ys(positions), radius, zden)]

\* a first pass that takes the left node of a step for the frame's root
frame_data_of_left(self, N, st, znum, zden) ==
    [i \in 1..Len(st) |-> FrameDatum(self, N, st[i][1], <<st[i][1], st[i][2]>>, znum, zden)]

frame_data(self, N, st, znum, zden) ==
    [i \in 1..Len(st) |-> FrameDatum(self, N, st[i][3], <<st[i][1], st[i][2]>>, znum, zden)]

\* the second pass, for one frame: centre in the max_width x max_height image and draw
ImageFrame(N, d, max_width, max_height, zden) ==
    LET U == Scale * zden
        min_x == MinOf(Xs(d.positions))
        min_y == MinOf(Ys(d.positions))
        offset_x == ((max_width * U - (MaxOf(Xs(d.positions)) - min_x)) \div (2 * U)) * U - min_x
        offset_y == ((max_height * U - (MaxOf(Ys(d.positions)) - min_y)) \div (2 * U)) * U - min_y
        centered_positions ==
            [n \in DOMAIN d.positions |->
                <<d.positions[n][1] + offset_x, d.positions[n][2] + offset_y>>]
    IN [root |-> d.root,
        highlight |-> d.highlight,
        node_radius |-> d.node_radius,
        width |-> max_width,
        height |-> max_height,
        positioned |-> DOMAIN centered_positions,
        node_visuals |-> draw_tree(N, d.root, centered_positions, d.highlight)]

\* render_to_image: the layout it asks for and the image it returns (N is kept with
\* the image: the tree the image was drawn from)
render_to_image(self, N, r, znum, zden) ==
    LET lay == layout_tree(self, N, r)
        centered == center_positions(lay.positions, lay.canvas_width)
        positions == Zoomed(centered, znum)
        radius == ZoomedRadius(self, znum, zden)
    IN [root |-> r,
        nodes |-> N,
        canvas_width |-> lay.canvas_width,
        centered |-> centered,
        znum |-> znum,
        zden |-> zden,
        positions |-> positions,
        node_radius |-> radius,
        width |-> FrameExtent(Xs(positions), radius, zden),
        height |-> FrameExtent(Ys(positions), radius, zden),
        node_visuals |-> draw_tree(N, r, positions, <<>>)]

\* a tail of exactly one frame of the full tree
OneFinalFrame(delay) == 1

\* range(int(1.5 / delay)), delay in hundredths of a second
FinalFrameCount(delay) == 150 \div delay

\* the first pass as a whole: frame_data, the final tree, max_width and max_height
FirstPass(self, N, st, r, znum, zden) ==
    LET data == frame_data(self, N, st, znum, zden)
        final == FrameDatum(self, N, r, <<>>, znum, zden)
    IN [data |-> data,
        final |-> final,
        max_width |-> MaxOf({data[i].width : i \in 1..Len(data)} \cup {final.width, 0}),
        max_height |-> MaxOf({data[i].height : i \in 1..Len(data)} \cup {final.height, 0})]

\* number of frames the second pass produces
FrameTotal(st, delay) == Len(st) + FinalFrameCount(delay)

\* a second pass that draws the last step's frame again for the final frames
FrameAtLastStep(N, p, i, zden) ==
    ImageFrame(N, IF i <= Len(p.data) THEN p.data[i]
                  ELSE IF p.data # <<>> THEN p.data[Len(p.data)] ELSE p.final,
               p.max_width, p.max_height, zden)

\* frame i (1-based) of the second pass: the step frames, then the final tree repeated
FrameAt(N, p, i, zden) ==
    ImageFrame(N, IF i <= Len(p.data) THEN p.data[i] ELSE p.final,
               p.max_width, p.max_height, zden)

\* render_animation_frames_to_images: the list of frames it returns
render_animation_frames_to_images(self, N, st, r, znum, zden, delay) ==
    LET p == FirstPass(self, N, st, r, znum, zden)
    IN [i \in 1..FrameTotal(st, delay) |-> FrameAt(N, p, i, zden)]

\* stream_animation_frames_to_images: the frame its i-th next() yields; the first pass
\* depends on the tree and the zoom alone, so every next() sees the same one
stream_animation_frames_to_images(self, N, st, r, znum, zden, i) ==
    FrameAt(N, FirstPass(self, N, st, r, znum, zden), i, zden)

(* ------------------------------ HuffmanApp ---------------------------- *)
\* the speed slider runs from 0.1 to 2.0; the values the model moves it to: both
\* ends, the default, and values around the steps of int(1.5 / delay)
Speeds == {10, 70, 100, 150, 160, 200}
\* the export scale combobox
ExportScales == 1..4
\* the values the running application moves the slider to: the default, and one
\* above 1.0
AppSpeeds == {70, 160}

\* update_output: what the callback writes to the info panel, for self.tree with
\* text t and encoded string enc
InfoText(t, enc) ==
    LET s == get_compression_stats(t, enc)
    IN [original |-> s.original_bits, compressed |-> s.compressed_bits,
        percent |-> s.percent, encoded |-> enc]

update_output == InfoText(text, encoded)

\* a caller that has built a tree draws it without the application:
\* HuffmanTreeVisualizer(canvas, tree).render_to_image(), zoom = 1.0
RenderToImage ==
    /\ pc = "built"
    /\ visualizer' = HuffmanTreeVisualizer
    /\ image' = render_to_image(HuffmanTreeVisualizer, nodes, root, 1, 1)
    /\ pc' = "rendered"
    /\ UNCHANGED <<treeVars, appVars, animVars, streamVars, uiVars>>

\* visualize_animated once the tree is built: new visualizer with the application's
\* zoom and speed, animate_construction starts
NewVisualizer ==
    /\ pc = "built"
    /\ text # <<>>
    /\ visualizer' = SetZoomAndDelay(HuffmanTreeVisualizer, zoom_level, animation_speed)
    /\ frames' = <<>>
    /\ callbacks' = 0
    /\ anim_i' = 0
    /\ exporting' = FALSE
    /\ pc' = "animate"
    /\ UNCHANGED <<treeVars, appVars, streamVars, image, uiVars>>

\* animate_construction: one iteration of `for i, (left, right, merged) in enumerate(steps)`
AnimateStep ==
    /\ pc = "animate"
    /\ anim_i < Len(steps)
    /\ frames' = Append(frames, AnimateFrame(visualizer, nodes, steps, anim_i + 1))
    /\ anim_i' = anim_i + 1
    /\ UNCHANGED <<treeVars, appVars, streamVars, visVars, uiVars, callbacks, exporting, pc>>

\* animate_construction after the loop: the final tree, then callback()
AnimateFinal ==
    /\ pc = "animate"
    /\ anim_i >= Len(steps)
    /\ frames' = Append(frames, CanvasFrame(visualizer, nodes, root, <<>>))
    /\ callbacks' = callbacks + 1
    /\ info_text' = update_output
    /\ pc' = IF exporting THEN "export" ELSE "shown"
    /\ UNCHANGED <<treeVars, streamVars, visVars, uiVars>>
    /\ UNCHANGED <<zoom_level, animation_speed, anim_i, exporting>>

\* on_speed_change: the slider is moved while no handler runs; the copy in
\* visualizer.animation_delay sets the sleep between canvas frames
on_speed_change ==
    /\ pc \in {"shown", "idle"}
    /\ \E s \in (IF pc = "idle" THEN AppSpeeds ELSE Speeds) :
          /\ animation_speed' = s
          /\ visualizer' = IF ~IsNone(visualizer) THEN [visualizer EXCEPT !.animation_delay = s]
                            ELSE visualizer
    /\ raised' = ""
    /\ UNCHANGED <<treeVars, animVars, streamVars, zoom_level, info_text, pc>>
    /\ UNCHANGED <<image, textbox, thread, ops, requests>>

\* export_animation.do_export with a file chosen: animate_construction runs again
ExportStart ==
    /\ pc = "shown"
    /\ frames' = <<>>
    /\ callbacks' = 0
    /\ anim_i' = 0
    /\ exporting' = TRUE
    /\ pc' = "animate"
    /\ UNCHANGED <<treeVars, appVars, streamVars, visVars, uiVars>>

\* export_mp4: the writer and the frame generator are created
StreamBegin ==
    /\ pc = "export"
    /\ \E scale \in ExportScales :
          stream' = [znum |-> ZoomNum(visualizer.zoom_level) * scale,
                     zden |-> ZoomDen(visualizer.zoom_level),
                     delay |-> animation_speed,
                     fps |-> IF animation_speed > 0 THEN 100 \div animation_speed ELSE 2]
    /\ streamed' = <<>>
    /\ pc' = "stream"
    /\ UNCHANGED <<treeVars, appVars, animVars, visVars, uiVars>>

\* export_mp4: one turn of `for frame in ...: writer.append_data(frame)`
StreamNext ==
    /\ pc = "stream"
    /\ Len(streamed) < FrameTotal(steps, stream.delay)
    /\ streamed' = Append(streamed,
                          stream_animation_frames_to_images(visualizer, nodes, steps, root,
                                                            stream.znum, stream.zden,
                                                            Len(streamed) + 1))
    /\ UNCHANGED <<treeVars, appVars, animVars, visVars, uiVars, stream, pc>>

\* export_mp4: the generator is exhausted, the writer is closed
StreamEnd ==
    /\ pc = "stream"
    /\ Len(streamed) >= FrameTotal(steps, stream.delay)
    /\ pc' = "exported"
    /\ UNCHANGED <<treeVars, appVars, animVars, streamVars, visVars, uiVars>>

Init ==
    /\ text \in Texts
    /\ frequency = <<>>
    /\ nodes = <<>>
    /\ heap = <<>>
    /\ steps = <<>>
    /\ root = 0
    /\ codes = <<>>
    /\ encoded = <<>>
    /\ zoom_level = 0
    /\ animation_speed = 70
    /\ frames = <<>>
    /\ callbacks = 0
    /\ info_text = <<>>
    /\ anim_i = 0
    /\ exporting = FALSE
    /\ stream = <<>>
    /\ streamed = <<>>
    /\ visualizer = None
    /\ image = None
    /\ textbox = text
    /\ thread = [pc |-> "none"]
    /\ raised = ""
    /\ ops = 0
    /\ requests = <<>>
    /\ pc = "new"

vars == <<treeVars, appVars, animVars, streamVars, visVars, uiVars, pc>>

Next ==
    \/ Construct
    \/ BuildStart
    \/ MergeStep
    \/ BuildEnd
    \/ GenerateCodes
    \/ EncodeText
    \/ RenderToImage
    \/ NewVisualizer
    \/ AnimateStep
    \/ AnimateFinal
    \/ on_speed_change
    \/ ExportStart
    \/ StreamBegin
    \/ StreamNext
    \/ StreamEnd

Spec == Init /\ [][Next]_vars

(* ------------------------- the running application -------------------- *)
\* the blank that str.strip() removes
Space == 32

\* what is typed or loaded into the text box: "ab" and " aabc "
AppTexts == {<<1, 2>>, <<Space, 1, 1, 2, 3, Space>>}
\* the export scales chosen in the running application: the default and 1
AppScales == {1, 2}
\* canvas.winfo_width(): before the window is mapped, and once it is
CanvasWidths == {1, 900}

RECURSIVE lstrip(_)
lstrip(t) == IF t # <<>> /\ Head(t) = Space THEN lstrip(Tail(t)) ELSE t

RECURSIVE rstrip(_)
rstrip(t) ==
    IF t # <<>> /\ t[Len(t)] = Space THEN rstrip(SubSeq(t, 1, Len(t) - 1)) ELSE t

\* str.strip()
strip(t) == rstrip(lstrip(t))

\* the keep_centered shift of draw_static, on the frame f laid out, centred and zoomed:
\* every node is drawn offset to the right
KeepCentered(f, keep_centered, canvas_w, U) ==
    [f EXCEPT !.node_visuals =
        [j \in 1..Len(f.node_visuals) |->
            [f.node_visuals[j] EXCEPT !.x =
                @ + U * (IF keep_centered
                         THEN Max(0, (canvas_w * U
                                      - (MaxOf({f.node_visuals[k].x :
                                                   k \in 1..Len(f.node_visuals)})
                                         + (f.node_radius + 40) * U)) \div (2 * U))
                         ELSE 0)]]]

\* draw_static on a tree with a root: layout, centre, zoom, shift, draw
draw_static(self, N, r, keep_centered, canvas_w) ==
    KeepCentered(CanvasFrame(self, N, r, <<>>), keep_centered, canvas_w,
                 Scale * ZoomDen(self.zoom_level))

\* animate_construction as a whole: one draw per step, then the final tree
animate_construction(self, N, st, r) ==
    [i \in 1..(Len(st) + 1) |->
        IF i <= Len(st) THEN AnimateFrame(self, N, st, i) ELSE CanvasFrame(self, N, r, <<>>)]

\* the layout a canvas draw asked for: tree, root, zoom, and the positions returned
CanvasRequest(N, f) ==
    [N |-> N, root |-> f.root, znum |-> ZoomNum(f.zoom), zden |-> ZoomDen(f.zoom),
     positions |-> Zoomed(f.centered, ZoomNum(f.zoom))]

\* the layout an image draw asked for
ImageRequest(N, d, znum, zden) ==
    [N |-> N, root |-> d.root, znum |-> znum, zden |-> zden, positions |-> d.positions]

\* the layouts of a first pass: one per step, then the final tree
PassRequests(N, p, znum, zden) ==
    [i \in 1..(Len(p.data) + 1) |->
        ImageRequest(N, IF i <= Len(p.data) THEN p.data[i] ELSE p.final, znum, zden)]

\* the parts of HuffmanApp.tree that the visualizer reads
AppTree == [nodes |-> nodes, steps |-> steps, root |-> root]

\* Objects.  A frame generator holds `self`, the visualizer it was created on, and
\* through it self.tree.  While HuffmanApp.visualizer is that object the generator
\* reads the application's (alias); when the application binds a new visualizer and
\* tree, the generator keeps the objects it has.
KeepAlive(g, vis, tr) ==
    IF IsNone(g) \/ ~g.alias THEN g
    ELSE [g EXCEPT !.alias = FALSE, !.self = vis, !.tree = tr]

GeneratorSelf(g, vis) == IF g.alias THEN vis ELSE g.self

\* a generator that reads the tree through HuffmanApp at every next()
CurrentTree(g, tr) == tr

GeneratorTree(g, tr) == IF g.alias THEN tr ELSE g.tree

\* a handler runs on the main thread, from the event loop
Handler == pc = "idle" /\ ops < MaxOps /\ ops' = ops + 1

\* HuffmanTree(text) for the texts that can be in the text box, stripped
AppTrees == [t \in {strip(x) : x \in AppTexts} |-> HuffmanTree(t)]

\* self.tree = tr, the HuffmanTree(t) just constructed
SetTree(t, tr) ==
    /\ text' = t
    /\ frequency' = tr.frequency
    /\ nodes' = tr.nodes
    /\ heap' = <<>>
    /\ steps' = tr.steps
    /\ root' = tr.root
    /\ codes' = tr.codes
    /\ encoded' = tr.encoded

\* the text box is edited (_on_text_change does nothing) or load_file fills it
on_text_change ==
    /\ pc = "idle"
    /\ \E t \in AppTexts : t # textbox /\ textbox' = t
    /\ UNCHANGED <<treeVars, appVars, animVars, streamVars, visVars, pc>>
    /\ UNCHANGED <<thread, raised, ops, requests>>

\* visualize(redraw_only, keep_centered), with HuffmanApp.zoom_level = zoom when it
\* is called (no widget calls it with redraw_only = False)
visualize(redraw_only, keep_centered, zoom) ==
    LET t == strip(textbox)
    IN IF t = <<>>
       THEN /\ raised' = ""
            /\ UNCHANGED <<treeVars, visualizer, frames, info_text, requests, stream>>
       ELSE IF redraw_only /\ IsNone(visualizer)
       THEN /\ raised' = "AttributeError"
            /\ UNCHANGED <<treeVars, visualizer, frames, info_text, requests, stream>>
       ELSE /\ IF redraw_only
               THEN /\ visualizer' = SetZoomAndDelay(visualizer, zoom, animation_speed)
                    /\ UNCHANGED <<treeVars, info_text, stream>>
               ELSE /\ \E tr \in {AppTrees[t]} :
                          /\ SetTree(t, tr)
                          /\ info_text' = InfoText(t, tr.encoded)
                    /\ visualizer' =
                           SetZoomAndDelay(HuffmanTreeVisualizer, zoom, animation_speed)
                    /\ stream' = KeepAlive(stream, visualizer, AppTree)
            /\ \E canvas_w \in (IF keep_centered THEN CanvasWidths ELSE {0}) :
                  \E f \in {draw_static(visualizer', nodes', root', keep_centered, canvas_w)} :
                     /\ frames' = <<f>>
                     /\ requests' = Append(requests, CanvasRequest(nodes', f))
            /\ raised' = ""

zoom_in ==
    /\ Handler
    /\ zoom_level' = zoom_level + 1
    /\ visualize(TRUE, TRUE, zoom_level')
    /\ UNCHANGED <<animation_speed, callbacks, anim_i, exporting, streamed, image>>
    /\ UNCHANGED <<textbox, thread, pc>>

zoom_out ==
    /\ Handler
    /\ zoom_level' = zoom_level - 1
    /\ visualize(TRUE, TRUE, zoom_level')
    /\ UNCHANGED <<animation_speed, callbacks, anim_i, exporting, streamed, image>>
    /\ UNCHANGED <<textbox, thread, pc>>

\* the Visualize button
visualize_animated ==
    /\ Handler
    /\ LET t == strip(textbox)
       IN IF t = <<>>
          THEN UNCHANGED <<treeVars, visualizer, frames, callbacks, anim_i, info_text,
                           requests, stream>>
          ELSE /\ \E tr \in {AppTrees[t]} :
                     /\ SetTree(t, tr)
                     /\ info_text' = InfoText(t, tr.encoded)
               /\ visualizer' =
                      SetZoomAndDelay(HuffmanTreeVisualizer, zoom_level, animation_speed)
               /\ \E fs \in {animate_construction(visualizer', nodes', steps', root')} :
                     /\ frames' = fs
                     /\ requests' = requests \o
                            [i \in 1..Len(fs) |-> CanvasRequest(nodes', fs[i])]
               /\ callbacks' = 1
               /\ anim_i' = Len(steps')
               /\ stream' = KeepAlive(stream, visualizer, AppTree)
    /\ raised' = ""
    /\ UNCHANGED <<zoom_level, animation_speed, exporting, streamed, image>>
    /\ UNCHANGED <<textbox, thread, pc>>

\* reset: the widgets are cleared, zoom and speed go back to their defaults;
\* self.tree and self.visualizer stay
reset ==
    /\ Handler
    /\ textbox' = <<>>
    /\ frames' = <<>>
    /\ info_text' = <<>>
    /\ zoom_level' = 0
    /\ animation_speed' = 70
    /\ raised' = ""
    /\ UNCHANGED <<treeVars, streamVars, visVars, callbacks, anim_i, exporting>>
    /\ UNCHANGED <<thread, requests, pc>>

\* export_image.do_export with a file chosen
export_image ==
    /\ Handler
    /\ \E scale \in AppScales :
          IF IsNone(visualizer)
          THEN UNCHANGED <<image, requests>>
          ELSE \E img \in {render_to_image(visualizer, nodes, root,
                                            ZoomNum(visualizer.zoom_level) * scale,
                                            ZoomDen(visualizer.zoom_level))} :
                  /\ image' = img
                  /\ requests' = Append(requests,
                                        ImageRequest(nodes, img, img.znum, img.zden))
    /\ raised' = ""
    /\ UNCHANGED <<treeVars, appVars, animVars, streamVars, visualizer>>
    /\ UNCHANGED <<textbox, thread, pc>>

\* export_animation.do_export with a file chosen: animate_construction on the main
\* thread, then the export_mp4 thread is started (one export in a behaviour)
export_animation ==
    /\ Handler
    /\ thread.pc = "none"
    /\ \E scale \in AppScales :
          IF IsNone(visualizer)
          THEN UNCHANGED <<frames, callbacks, anim_i, info_text, requests, thread>>
          ELSE \E fs \in {animate_construction(visualizer, nodes, steps, root)} :
                  /\ frames' = fs
                  /\ callbacks' = 1
                  /\ anim_i' = Len(steps)
                  /\ info_text' = update_output
                  /\ requests' = requests \o
                         [i \in 1..Len(fs) |-> CanvasRequest(nodes, fs[i])]
                  /\ thread' = [pc |-> "started", scale |-> scale]
    /\ raised' = ""
    /\ UNCHANGED <<treeVars, streamVars, visVars, zoom_level, animation_speed, exporting>>
    /\ UNCHANGED <<textbox, pc>>

\* export_mp4, on its own thread: imageio.get_writer(fps = int(1 / animation_speed))
export_mp4_get_writer ==
    /\ thread.pc = "started"
    /\ thread' = [pc |-> "writer", scale |-> thread.scale,
                  fps |-> IF animation_speed > 0 THEN 100 \div animation_speed ELSE 2]
    /\ UNCHANGED <<treeVars, appVars, animVars, streamVars, visVars, pc>>
    /\ UNCHANGED <<textbox, raised, ops, requests>>

\* export_mp4: the call self.visualizer.stream_animation_frames_to_images(zoom, delay)
\* binds self, zoom and delay; the body has not run yet.  `created` records what the
\* application held at this moment.
export_mp4_generator ==
    /\ thread.pc = "writer"
    /\ stream' = [znum |-> ZoomNum(visualizer.zoom_level) * thread.scale,
                  zden |-> ZoomDen(visualizer.zoom_level),
                  delay |-> animation_speed,
                  fps |-> thread.fps,
                  alias |-> TRUE,
                  self |-> None,
                  tree |-> None,
                  pass |-> None,
                  created |-> [self |-> visualizer, tree |-> AppTree,
                               znum |-> ZoomNum(visualizer.zoom_level) * thread.scale,
                               zden |-> ZoomDen(visualizer.zoom_level),
                               delay |-> animation_speed]]
    /\ streamed' = <<>>
    /\ thread' = [thread EXCEPT !.pc = "pulling"]
    /\ UNCHANGED <<treeVars, appVars, animVars, visVars, pc>>
    /\ UNCHANGED <<textbox, raised, ops, requests>>

\* export_mp4: one next() of the generator and writer.append_data(frame); the first
\* next() runs the first pass
export_mp4_next ==
    /\ thread.pc = "pulling"
    /\ \E self \in {GeneratorSelf(stream, visualizer)}, tr \in {GeneratorTree(stream, AppTree)} :
          /\ Len(streamed) < FrameTotal(tr.steps, stream.delay)
          /\ \E p \in {IF IsNone(stream.pass)
                         THEN FirstPass(self, tr.nodes, tr.steps, tr.root,
                                        stream.znum, stream.zden)
                         ELSE stream.pass} :
                /\ stream' = [stream EXCEPT !.pass = p]
                /\ streamed' = Append(streamed,
                                      FrameAt(tr.nodes, p, Len(streamed) + 1, stream.zden))
                /\ requests' = IF IsNone(stream.pass)
                               THEN requests \o
                                    PassRequests(tr.nodes, p, stream.znum, stream.zden)
                               ELSE requests
    /\ UNCHANGED <<treeVars, appVars, animVars, visVars, pc>>
    /\ UNCHANGED <<textbox, thread, raised, ops>>

\* export_mp4: the generator is exhausted; finally: writer.close()
export_mp4_close ==
    /\ thread.pc = "pulling"
    /\ Len(streamed) >= FrameTotal(GeneratorTree(stream, AppTree).steps, stream.delay)
    /\ thread' = [thread EXCEPT !.pc = "done"]
    /\ UNCHANGED <<treeVars, appVars, animVars, streamVars, visVars, pc>>
    /\ UNCHANGED <<textbox, raised, ops, requests>>

\* export_mp4: writer.append_data raises; except Exception, then finally
export_mp4_except ==
    /\ thread.pc = "pulling"
    /\ Len(streamed) < FrameTotal(GeneratorTree(stream, AppTree).steps, stream.delay)
    /\ thread' = [thread EXCEPT !.pc = "failed"]
    /\ UNCHANGED <<treeVars, appVars, animVars, streamVars, visVars, pc>>
    /\ UNCHANGED <<textbox, raised, ops, requests>>

\* HuffmanApp.__init__ has returned and mainloop runs
AppInit ==
    /\ text = <<>>
    /\ frequency = <<>>
    /\ nodes = <<>>
    /\ heap = <<>>
    /\ steps = <<>>
    /\ root = 0
    /\ codes = <<>>
    /\ encoded = <<>>
    /\ zoom_level = 0
    /\ animation_speed = 70
    /\ frames = <<>>
    /\ callbacks = 0
    /\ info_text = <<>>
    /\ anim_i = 0
    /\ exporting = FALSE
    /\ stream = None
    /\ streamed = <<>>
    /\ visualizer = None
    /\ image = None
    /\ textbox = <<>>
    /\ thread = [pc |-> "none"]
    /\ raised = ""
    /\ ops = 0
    /\ requests = <<>>
    /\ pc = "idle"

AppNext ==
    \/ on_text_change
    \/ on_speed_change
    \/ zoom_in
    \/ zoom_out
    \/ visualize_animated
    \/ reset
    \/ export_image
    \/ export_animation
    \/ export_mp4_get_writer
    \/ export_mp4_generator
    \/ export_mp4_next
    \/ export_mp4_close
    \/ export_mp4_except

AppSpec == AppInit /\ [][AppNext]_vars

(* ====================================================================== *)
(*                               Properties                               *)
(* ====================================================================== *)
\* __init__ has run _build_tree / _generate_codes / returned
RootSet == pc \notin {"new", "build", "merge"}
CodesSet == RootSet /\ pc # "codes"
TreeBuilt == CodesSet /\ pc \notin {"encode", "KeyError"}

\* the distinct symbols of the text, and their number k
Symbols == Range(text)
K == Cardinality(Symbols)
Occurrences(t, c) == Cardinality({i \in 1..Len(t) : t[i] = c})
FirstIndex(t, c) == MinOf({i \in 1..Len(t) : t[i] = c})

IsPrefix(a, b) == Len(a) <= Len(b) /\ SubSeq(b, 1, Len(a)) = a

CodeOf(c) == DictGet(codes, c)
HasCode(c) == KeyIndex(codes, c) # 0

RECURSIVE SumOver(_, _)
\* sum of f[x] over the x in S
SumOver(S, f) ==
    IF S = {} THEN 0 ELSE LET x == CHOOSE y \in S : TRUE IN f[x] + SumOver(S \ {x}, f)

\* sum over the distinct symbols s of frequency[s] * len(codes[s])
WeightedCost ==
    SumOver(Symbols, [c \in Symbols |-> Occurrences(text, c) * Len(CodeOf(c))])

\* the nodes of the subtree of n in arena N
RECURSIVE Subtree(_, _)
Subtree(N, n) ==
    IF n = 0 THEN {} ELSE {n} \cup Subtree(N, N[n].left) \cup Subtree(N, N[n].right)

IsLeaf(N, n) == N[n].left = 0 /\ N[n].right = 0

(* ---- C1 ---- *)
\* C1: when the text has at least two distinct symbols, the code table holds one
\* code per symbol and no symbol's code is a prefix of another symbol's code.
C1_PrefixFree ==
    (CodesSet /\ K >= 2) =>
        /\ \A c \in Symbols : HasCode(c)
        /\ \A c \in Symbols : \A d \in Symbols :
              c # d => ~IsPrefix(CodeOf(c), CodeOf(d))

\* a table of three or more symbols with codes of different lengths is built
C1_Witness ==
    /\ pc = "built"
    /\ K >= 3
    /\ \E c \in Symbols : \E d \in Symbols : Len(CodeOf(c)) < Len(CodeOf(d))

(* ---- C2 ---- *)
\* the least weighted path length over all binary trees whose leaves are the
\* symbols S: every split of S into the leaves under the root's two children
RECURSIVE OptCost(_)
OptCost(S) ==
    IF Cardinality(S) <= 1 THEN 0
    ELSE LET m == MinOf(S)
         IN SumOver(S, [c \in S |-> Occurrences(text, c)])
            + MinOf({OptCost(A \cup {m}) + OptCost(S \ (A \cup {m}))
                     : A \in (SUBSET (S \ {m})) \ {S \ {m}}})

\* C2: for 2 to 6 distinct symbols the weighted code length of the built tree is
\* the minimum over all binary trees with those leaves.
C2_Minimal ==
    (pc = "encode" /\ K >= 2 /\ K <= 6) => WeightedCost = OptCost(Symbols)

\* a six-symbol table with two equal frequencies has been coded
C2_Witness ==
    /\ pc = "encode"
    /\ K = 6
    /\ \E c \in Symbols : \E d \in Symbols :
          c # d /\ Occurrences(text, c) = Occurrences(text, d)
    /\ \E c \in Symbols : Occurrences(text, c) >= 3

(* ---- C3 ---- *)
\* C3: with at least two distinct symbols, the encoded string is as long as the
\* weighted cost of the code table, and get_compression_stats reports that
\* number as compressed_bits (also where update_output has displayed it).
C3_EncodedLength ==
    (TreeBuilt /\ K >= 2) =>
        /\ Len(encoded) = WeightedCost
        /\ get_compression_stats(text, encoded).compressed_bits = WeightedCost
        /\ info_text # <<>> => info_text.compressed = WeightedCost

\* a text with a repeated symbol and codes of different lengths has been shown
C3_Witness ==
    /\ pc = "shown"
    /\ K >= 3
    /\ Len(text) > K
    /\ \E c \in Symbols : \E d \in Symbols : Len(CodeOf(c)) < Len(CodeOf(d))
    /\ info_text.compressed = Len(encoded)

(* ---- C4 ---- *)
\* creation sequence numbers are arena indices: leaves in first-occurrence
\* order, merged nodes afterwards in creation order
SeqMin(N, Q) ==
    CHOOSE n \in Q : \A m \in Q : N[n].freq < N[m].freq \/ (N[n].freq = N[m].freq /\ n <= m)

\* the queue as it stood before merge step i
QueueBefore(i) ==
    ((1..Len(frequency)) \cup {steps[j][3] : j \in 1..(i - 1)})
        \ UNION {{steps[j][1], steps[j][2]} : j \in 1..(i - 1)}

\* C4: every removal takes, among the queued nodes of minimum frequency, the one
\* with the lowest creation sequence number; for "aabb" the first-seen symbol
\* gets code "0" and the second-seen "1".
C4_TieBreakBySequence ==
    /\ \A i \in 1..Len(steps) :
          /\ steps[i][1] = SeqMin(nodes, QueueBefore(i))
          /\ steps[i][2] = SeqMin(nodes, QueueBefore(i) \ {steps[i][1]})
    /\ (CodesSet /\ text = <<1, 1, 2, 2>>) => (CodeOf(1) = <<0>> /\ CodeOf(2) = <<1>>)

(* ---- C5 ---- *)
\* two texts have the same frequency table in the same first-occurrence order
SameTable(t1, t2) ==
    /\ Len(t1) = Len(t2)
    /\ Range(t1) = Range(t2)
    /\ \A c \in Range(t1) : Occurrences(t1, c) = Occurrences(t2, c)
    /\ \A c \in Range(t1) : \A d \in Range(t1) :
          (FirstIndex(t1, c) < FirstIndex(t1, d)) <=> (FirstIndex(t2, c) < FirstIndex(t2, d))

Parents(N, n) == {m \in 1..Len(N) : N[m].left = n \/ N[m].right = n}

\* C6: k = 0: no root, no steps; k = 1: the root is a single leaf, no steps;
\* k > 1: the tree under the root has k leaves, one per symbol, k - 1 internal
\* nodes with two children each, there are k - 1 merge steps, and the root is
\* the only node that is no child of another node.
C6_TreeShape ==
    RootSet =>
        /\ K = 0 => (root = 0 /\ steps = <<>>)
        /\ K = 1 => (root # 0 /\ IsLeaf(nodes, root) /\ steps = <<>>
                     /\ Subtree(nodes, root) = {root})
        /\ K > 1 =>
              LET T == Subtree(nodes, root)
                  L == {n \in T : IsLeaf(nodes, n)}
                  I == T \ L
              IN /\ root # 0
                 /\ Cardinality(L) = K
                 /\ {nodes[n].char : n \in L} = Symbols
                 /\ Cardinality(I) = K - 1
                 /\ \A n \in I : nodes[n].left # 0 /\ nodes[n].right # 0
                                 /\ nodes[n].left # nodes[n].right
                 /\ Len(steps) = K - 1
                 /\ {n \in 1..Len(nodes) : Parents(nodes, n) = {}} = {root}
                 /\ \A n \in T \ {root} : Cardinality(Parents(nodes, n)) = 1

\* a tree of five symbols has been finished
C6_Witness == pc = "codes" /\ K = 5 /\ Len(steps) = 4 /\ root # 0

(* ---- C7 ---- *)
\* the nodes a frame shows in the highlight colour
Green(f) ==
    {f.node_visuals[j].node : j \in {j \in 1..Len(f.node_visuals) :
                                          f.node_visuals[j].color = "lightgreen"}}

\* frame i of a frame list shows merge step i: rooted at its merged node, with its
\* left and right nodes, and only those, highlighted
ShowsStep(f, i) ==
    /\ f.root = steps[i][3]
    /\ f.highlight = <<steps[i][1], steps[i][2]>>
    /\ Green(f) = {steps[i][1], steps[i][2]}

\* a frame shows the finished tree with no highlighted pair
ShowsFinal(f) == f.root = root /\ f.highlight = <<>> /\ Green(f) = {}

AnimationOver == pc \in {"shown", "export", "stream", "exported"}

\* C7: animate_construction draws len(steps) + 1 frames: frame i shows merge step
\* i, the last one the finished tree without highlight; the pair of frame 0 are
\* two leaves of lowest frequency; the callback runs once, after the last frame.
C7_AnimationFrames ==
    /\ pc = "animate" =>
          /\ Len(frames) = anim_i
          /\ Len(frames) <= Len(steps)
          /\ callbacks = 0
    /\ \A i \in 1..Len(frames) : i <= Len(steps) => ShowsStep(frames[i], i)
    /\ (Len(frames) >= 1 /\ Len(steps) >= 1) =>
          LET l == frames[1].highlight[1]
              r == frames[1].highlight[2]
          IN /\ l # r
             /\ IsLeaf(nodes, l) /\ IsLeaf(nodes, r)
             /\ nodes[l].freq <= nodes[r].freq
             /\ \A n \in (1..Len(frequency)) \ {l, r} : nodes[r].freq <= nodes[n].freq
    /\ AnimationOver =>
          /\ Len(frames) = Len(steps) + 1
          /\ ShowsFinal(frames[Len(frames)])
          /\ callbacks = 1

\* the animation of a five-symbol tree has ended: four merge frames and a final one
C7_Witness ==
    /\ pc = "shown"
    /\ K = 5
    /\ Len(frames) = 5
    /\ callbacks = 1
    /\ Cardinality(Green(frames[4])) = 2

(* ---- C8 ---- *)
StreamOrder ==
    \A i \in 1..Len(streamed) :
        IF i <= Len(steps) THEN ShowsStep(streamed[i], i) ELSE ShowsFinal(streamed[i])

LeavesOf(positions) == {n \in DOMAIN positions : IsLeaf(nodes, n)}

Abs(x) == IF x >= 0 THEN x ELSE 0 - x

\* height of the subtree of n: edges on the longest path down
RECURSIVE Height(_, _)
Height(N, n) ==
    IF n = 0 THEN 0 - 1
    ELSE 1 + Max(Height(N, N[n].left), Height(N, N[n].right))

\* C9: in every layout drawn (merge-step subtree or whole tree), laid out and
\* centred, two distinct leaves are at least x_spacing = 80 px apart
\* horizontally.
C9_LeafSeparation ==
    /\ XSpacing(HuffmanTreeVisualizer) = 80
    /\ \A i \in 1..Len(frames) :
          LET P == frames[i].centered
          IN \A a \in LeavesOf(P) : \A b \in LeavesOf(P) :
                a # b => Abs(P[a][1] - P[b][1]) >= 80 * Scale

\* the whole tree drawn is a chain of four leaves (each merge adds one leaf)
C9_Witness ==
    /\ pc = "shown"
    /\ K = 4
    /\ Height(nodes, root) = 3
    /\ Cardinality(LeavesOf(frames[Len(frames)].centered)) = 4

(* ---- C10 ---- *)
\* C10: in every layout drawn, laid out and centred, the midpoint of the least
\* and the greatest x lies less than one pixel from canvas_width / 2.
C10_Centered ==
    \A i \in 1..Len(frames) :
        LET P == frames[i].centered
            lo == MinOf(Xs(P))
            hi == MaxOf(Xs(P))
        IN Abs((lo + hi) - frames[i].canvas_width * Scale) < 2 * Scale

\* a seven-leaf tree, whose canvas is wider than 600, has been drawn
C10_Witness ==
    /\ pc = "shown"
    /\ K = 7
    /\ frames[Len(frames)].canvas_width > 600
    /\ Cardinality(DOMAIN frames[Len(frames)].centered) = 13

(* ---- C11 ---- *)
\* C11: building from the empty text raises nothing and gives no root, an empty
\* frequency table, an empty code table, no merge steps, an empty encoded string
\* and statistics (0, 0, 0) whose percentage has a non-zero divisor.
C11_EmptyText ==
    text = <<>> =>
        /\ pc # "KeyError"
        /\ frequency = <<>>
        /\ nodes = <<>> /\ heap = <<>> /\ steps = <<>> /\ root = 0
        /\ codes = <<>> /\ encoded = <<>>
        /\ TreeBuilt =>
              LET s == get_compression_stats(text, encoded)
              IN /\ s.original_bits = 0
                 /\ s.compressed_bits = 0
                 /\ s.percent.den # 0
                 /\ s.percent.num = 0

\* the empty text has been built
C11_Witness == pc = "built" /\ text = <<>> /\ frequency = <<>>

(* ---- C12 ---- *)
\* C12: for a text of n >= 1 copies of one symbol x, building raises nothing and
\* gives a root that is the leaf (x, n) without children, no merge steps, the
\* code table {x: ""}, an empty encoded string and statistics (8n, 0, 100) whose
\* percentage has a non-zero divisor.
C12_SingleSymbol ==
    K = 1 =>
        LET x == text[1]
            n == Len(text)
        IN /\ pc # "KeyError"
           /\ steps = <<>>
           /\ RootSet => (root # 0 /\ nodes[root] = HuffmanNode(x, n, 0, 0))
           /\ CodesSet => codes = <<<<x, <<>>>>>>
           /\ TreeBuilt =>
                 LET s == get_compression_stats(text, encoded)
                 IN /\ encoded = <<>>
                    /\ s.original_bits = 8 * n
                    /\ s.compressed_bits = 0
                    /\ s.percent.den # 0
                    /\ s.percent.num = 100 * s.percent.den

\* a text of one symbol repeated five times or more has been built
C12_Witness ==
    /\ pc = "built"
    /\ K = 1
    /\ Len(text) >= 5
    /\ root # 0 /\ nodes[root].freq = Len(text)

(* ---- C14 ---- *)
\* C14: a symbol that is strictly more frequent than another has a code that is
\* no longer; for "aaaabbbcc" there are two merge steps and
\* len(code[a]) <= len(code[b]) <= len(code[c]).
C14_FrequentIsShorter ==
    /\ CodesSet =>
          \A s \in Symbols : \A t \in Symbols :
              DictGet(frequency, s) > DictGet(frequency, t)
                  => Len(CodeOf(s)) <= Len(CodeOf(t))
    /\ (RootSet /\ text \in ExampleTexts) => Len(steps) = 2
    /\ (CodesSet /\ text \in ExampleTexts) =>
          /\ Len(CodeOf(1)) <= Len(CodeOf(2))
          /\ Len(CodeOf(2)) <= Len(CodeOf(3))

\* "aaaabbbcc" has been coded, its most frequent symbol with the shortest code
C14_Witness ==
    /\ pc = "built"
    /\ text \in ExampleTexts
    /\ frequency = <<<<1, 4>>, <<2, 3>>, <<3, 2>>>>
    /\ Len(CodeOf(1)) < Len(CodeOf(3))

(* ---- C16 ---- *)
\* C16: at every merge step the two nodes removed are in the queue at that
\* moment, left first and right second, with left.freq <= right.freq <= the
\* frequency of every node that stays in the queue; the merged node has them as
\* its left and right children and the sum of their frequencies.  (While the
\* loop runs, the queue before the next step is what the heap list holds.)
C16_MinimumPair ==
    /\ pc = "merge" =>
          /\ Range(heap) = QueueBefore(Len(steps) + 1)
          /\ Len(heap) = Cardinality(Range(heap))
    /\ \A i \in 1..Len(steps) :
          LET l == steps[i][1]
              r == steps[i][2]
              m == steps[i][3]
              Q == QueueBefore(i)
          IN /\ l \in Q /\ r \in Q /\ l # r
             /\ nodes[l].freq <= nodes[r].freq
             /\ \A n \in Q \ {l, r} : nodes[r].freq <= nodes[n].freq
             /\ nodes[m].left = l /\ nodes[m].right = r
             /\ nodes[m].freq = nodes[l].freq + nodes[r].freq
             /\ nodes[m].char = 0

\* the loop is running on four or more symbols of different frequencies and has
\* already removed a merged node again
C16_Witness ==
    /\ pc = "merge"
    /\ Len(frequency) >= 4
    /\ Len(heap) >= 2
    /\ \E i \in 1..Len(steps) : steps[i][1] > Len(frequency) \/ steps[i][2] > Len(frequency)
    /\ \E i \in 1..Len(frequency) : \E j \in 1..Len(frequency) :
          frequency[i][2] < frequency[j][2]

(* ---- C17 ---- *)
\* the steps that consume node n, as left or as right
ConsumedBy(n) == {i \in 1..Len(steps) : steps[i][1] = n \/ steps[i][2] = n}

\* C17: in the merge log of a built tree every node consumed by step i is a
\* leaf or the node produced by an earlier step; a node is consumed by at most
\* one step and never as both left and right; every produced node but the last
\* is consumed by exactly one later step; the node produced by the last step is
\* the root.
C17_MergeLog ==
    RootSet =>
        /\ \A i \in 1..Len(steps) :
              /\ steps[i][1] # steps[i][2]
              /\ \A n \in {steps[i][1], steps[i][2]} :
                    \/ n \in 1..Len(frequency) /\ IsLeaf(nodes, n)
                    \/ \E j \in 1..(i - 1) : steps[j][3] = n
        /\ \A n \in 1..Len(nodes) : Cardinality(ConsumedBy(n)) <= 1
        /\ \A j \in 1..(Len(steps) - 1) :
              /\ Cardinality(ConsumedBy(steps[j][3])) = 1
              /\ \A i \in ConsumedBy(steps[j][3]) : i > j
        /\ steps # <<>> =>
              /\ steps[Len(steps)][3] = root
              /\ ConsumedBy(root) = {}

\* a log of four steps is finished in which a step consumes two produced nodes
C17_Witness ==
    /\ pc = "codes"
    /\ Len(steps) >= 4
    /\ \E i \in 1..Len(steps) : steps[i][1] > Len(frequency) /\ steps[i][2] > Len(frequency)

(* ---- C15 ---- *)
\* the nodes a frame draws
Drawn(f) == {f.node_visuals[j].node : j \in 1..Len(f.node_visuals)}

\* the nodes still waiting in the queue once step i is done, with all below them
Unmerged(i) ==
    UNION {Subtree(nodes, q) : q \in QueueBefore(i + 1) \ {steps[i][3]}}

\* frame i positions and draws the subtree of step i's merged node: each of its
\* nodes once, and nothing that is still unmerged
ShowsSubtree(positioned, f, i) ==
    LET T == Subtree(nodes, steps[i][3])
    IN /\ positioned = T
       /\ Drawn(f) = T
       /\ Len(f.node_visuals) = Cardinality(T)
       /\ Drawn(f) \cap Unmerged(i) = {}
       /\ T \cap Unmerged(i) = {}

\* C15: in every per-step frame i, drawn on the canvas by animate_construction
\* or yielded by stream_animation_frames_to_images, the nodes that get a position
\* and the nodes drawn are exactly the subtree of steps[i]'s merged node, and no
\* leaf or subtree still unmerged at step i is in the frame.
C15_FrameIsMergedSubtree ==
    /\ \A i \in 1..Len(frames) :
          i <= Len(steps) => ShowsSubtree(DOMAIN frames[i].centered, frames[i], i)
    /\ \A i \in 1..Len(streamed) :
          i <= Len(steps) => ShowsSubtree(streamed[i].positioned, streamed[i], i)

\* the first frame of a stream shows two leaves and their parent while at least
\* two more leaves are still unmerged
C15_Witness ==
    /\ pc = "exported"
    /\ K >= 4
    /\ Len(streamed) > Len(steps)
    /\ Cardinality(Drawn(streamed[1])) = 3
    /\ Cardinality(Drawn(frames[1])) = 3
    /\ Cardinality(Unmerged(1)) >= 2

(* ---- C18 ---- *)
\* a fresh layout of the complete tree: laid out, centred and zoomed
FreshLayout(znum) ==
    LET lay == layout_tree(HuffmanTreeVisualizer, nodes, root)
    IN Zoomed(center_positions(lay.positions, lay.canvas_width), znum)

\* frame f is drawn from tree.root without highlight, with the radius of the zoom
FinalFrameOfRoot(f, znum, zden) ==
    /\ f.root = root
    /\ f.highlight = <<>>
    /\ Green(f) = {}
    /\ Drawn(f) = Subtree(nodes, root)
    /\ f.node_radius = (node_radius * znum) \div zden

\* every node of f is drawn where a fresh layout puts it
AtFreshLayout(f, znum) ==
    \A j \in 1..Len(f.node_visuals) :
        LET nv == f.node_visuals[j]
        IN nv.x = FreshLayout(znum)[nv.node][1] /\ nv.y = FreshLayout(znum)[nv.node][2]

\* every node of f is drawn where a fresh layout puts it, moved by one offset for
\* the whole frame, which puts the middle of the tree less than a pixel from the
\* middle of the image in both directions
AtFreshLayoutCentred(f, znum, zden) ==
    LET P == FreshLayout(znum)
        U == Scale * zden
        dx == f.node_visuals[1].x - P[f.node_visuals[1].node][1]
        dy == f.node_visuals[1].y - P[f.node_visuals[1].node][2]
        xs == {f.node_visuals[j].x : j \in 1..Len(f.node_visuals)}
        ys == {f.node_visuals[j].y : j \in 1..Len(f.node_visuals)}
    IN /\ \A j \in 1..Len(f.node_visuals) :
             LET nv == f.node_visuals[j]
             IN nv.x = P[nv.node][1] + dx /\ nv.y = P[nv.node][2] + dy
       /\ Abs(MinOf(xs) + MaxOf(xs) - f.width * U) < 2 * U
       /\ Abs(MinOf(ys) + MaxOf(ys) - f.height * U) < 2 * U

\* the final frames of the list render_animation_frames_to_images returns
RenderedFinals ==
    LET fs == render_animation_frames_to_images(visualizer, nodes, steps, root, stream.znum,
                                                stream.zden, stream.delay)
    IN {fs[i] : i \in (Len(steps) + 1)..Len(fs)}

StreamedFinals == {streamed[i] : i \in (Len(steps) + 1)..Len(streamed)}

\* C18 as stated: every final frame of the stream and of the list is drawn from
\* tree.root, without highlight, with the node radius and at the positions of a
\* fresh layout of the complete tree (laid out, centred, zoomed).
C18_FinalAtFreshLayout ==
    pc \in {"stream", "exported"} =>
        \A f \in StreamedFinals \cup (IF pc = "exported" THEN RenderedFinals ELSE {}) :
            FinalFrameOfRoot(f, stream.znum, stream.zden) /\ AtFreshLayout(f, stream.znum)

\* C18 amended: every final frame of the stream and of the list is drawn from
\* tree.root, without highlight, with the node radius of a fresh layout of the
\* complete tree and at its positions moved by one offset per frame, the offset
\* that centres the tree in the max_width x max_height image.
C18_FinalFrames ==
    pc \in {"stream", "exported"} =>
        \A f \in StreamedFinals \cup (IF pc = "exported" THEN RenderedFinals ELSE {}) :
            /\ FinalFrameOfRoot(f, stream.znum, stream.zden)
            /\ AtFreshLayoutCentred(f, stream.znum, stream.zden)

\* a stream at export scale 2 has ended with final frames of a tree of three
\* symbols, drawn away from where the fresh layout puts the nodes
C18_Witness ==
    /\ pc = "exported"
    /\ K = 3
    /\ stream.znum = 2
    /\ Len(streamed) >= Len(steps) + 2
    /\ ~AtFreshLayout(streamed[Len(streamed)], stream.znum)

(* ---- C13 ---- *)
\* C13 as stated: a layout asked for on an absent root raises nothing and returns
\* an empty position mapping and a bounding width of 0.
C13_ZeroSizedBox ==
    (pc = "rendered" /\ root = 0) =>
        /\ DOMAIN image.centered = {}
        /\ DOMAIN image.positions = {}
        /\ image.canvas_width = 0

\* C13 amended: a layout asked for on an absent root raises nothing and returns an
\* empty position mapping and the least canvas width, 600, as its bounding width
\* (nothing is drawn; the image measures 600 + node_radius + 40 each way).
C13_EmptyLayout ==
    (pc = "rendered" /\ root = 0) =>
        /\ DOMAIN image.centered = {}
        /\ DOMAIN image.positions = {}
        /\ image.canvas_width = 600
        /\ image.node_visuals = <<>>
        /\ image.width = 665 /\ image.height = 665

\* the tree of the empty text has been rendered
C13_Witness == pc = "rendered" /\ text = <<>> /\ root = 0 /\ ~IsNone(image)

(* ---- C19 ---- *)
\* the positions a visualizer just constructed computes for the root and zoom of a
\* request
FreshPositions(q) ==
    LET lay == layout_tree(HuffmanTreeVisualizer, q.N, q.root)
    IN Zoomed(center_positions(lay.positions, lay.canvas_width), q.znum)

SameRequest(q1, q2) ==
    /\ q1.N = q2.N
    /\ q1.root = q2.root
    /\ q1.znum = q2.znum
    /\ q1.zden = q2.zden

GeneratorInputs ==
    <<GeneratorTree(stream, AppTree), stream.znum, stream.zden, stream.delay>>

\* a step of the export_mp4 thread
ThreadStep == thread' # thread \/ streamed' # streamed

RECURSIVE DecodeWalk(_, _, _, _, _, _)
DecodeWalk(N, r, bits, i, node, out) ==
    IF i > Len(bits) THEN [text |-> out, node |-> node]
    ELSE LET nxt == IF bits[i] = 0 THEN N[node].left ELSE N[node].right
         IN IF nxt = 0 THEN [text |-> out, node |-> 0]
            ELSE IF IsLeaf(N, nxt)
                 THEN DecodeWalk(N, r, bits, i + 1, r, Append(out, N[nxt].char))
                 ELSE DecodeWalk(N, r, bits, i + 1, nxt, out)

Decode(N, r, bits) == DecodeWalk(N, r, bits, 1, r, <<>>)

\* C21: for every text with at least two distinct symbols, decoding the encoded
\* string by walking the built tree from the root consumes the whole string (the
\* walk ends back on the root) and returns the original text.
C21_RoundTrip ==
    (pc = "built" /\ K >= 2) =>
        /\ Decode(nodes, root, encoded).text = text
        /\ Decode(nodes, root, encoded).node = root

\* a text with a repeated symbol and codes of different lengths has been encoded
C21_Witness ==
    /\ pc = "built"
    /\ K >= 3
    /\ Len(text) > K
    /\ \E c \in Symbols : \E d \in Symbols : Len(CodeOf(c)) < Len(CodeOf(d))
    /\ Len(encoded) > Len(text)
    /\ Decode(nodes, root, encoded).text = text

(* ---- C22 ---- *)
\* C22: a zoom action never uses a missing visualizer: whenever visualize with
\* redraw_only passes the empty-text check, self.visualizer is set, so no zoom
\* handler ends in the AttributeError of `self.visualizer.zoom_level = ...` on None.
C22_ZoomHasVisualizer == raised # "AttributeError"

(* ---- C23 ---- *)
\* C23: reset returns the application to its initial state: the step of reset leaves
\* no tree and no visualizer (nothing for copy_encoded to copy, nothing for
\* export_image / export_animation to render) and a zoom of 1.0.
C23_ResetToInitial ==
    [][reset => /\ IsNone(visualizer')
                /\ nodes' = <<>> /\ root' = 0 /\ encoded' = <<>>
                /\ zoom_level' = 0]_vars

(* ---- C24 ---- *)
\* C24: for every speed the slider allows, the frame rate passed to the video writer,
\* int(1 / animation_speed), is an integer of at least 1.
C24_FrameRateAtLeastOne ==
    pc \in {"stream", "exported"} => (stream.fps \in Nat /\ stream.fps >= 1)
====
